---- MODULE Spec2Model ----
(***************************************************************************)
(* Character alignment and prosody aggregation of the echo-speech-module:  *)
(* the boundary selector and the pitch-contour builder of intonation.py,   *)
(* and the loudness pass with its character reconstructor of intensity.py. *)
(*                                                                         *)
(* Samples, frames and strengths are small naturals.  A frame index fr     *)
(* of a numpy array is position fr + 1 of the sequence that models it.     *)
(***************************************************************************)
EXTENDS Integers, Sequences, FiniteSets, TLC

\* ------------------------------------------------------------------ bounds
MaxSpokenLen == 3
MaxHop == 2
MaxStrength == 1
MaxOnsets == 3
MaxChars == 3
MaxAudioLen == 5        \* longest spoken signal of the prosody pass
MaxVolumeLen == 6       \* longest spoken signal of the loudness pass
HopLength == 2          \* the hop length the passes are called with, scaled down

\* The unvoiced marker of the F0 track, and the absent value of the results.
NaN == 0
None == 0 - 1

CharAlphabet == {"a", " "}
F0Values == {NaN, 2, 4}
SamplingRates == {3, 4}
VolumeValues == {0 - 100, 0 - 20}   \* loudness values handed to the prosody pass
IntensityErrorNames == {"Cannot Recognize Speech"}  \* failures of the loudness pass
MaxWorkers == 2
Times == {1, 2}                     \* times at which an ErrorResponse is built
MaxTextLen == 5         \* longest transcript of the loudness pass
TextAlphabet == {"a", "b", " "}
RmsValues == {0, 1}     \* a silent segment, a full-scale segment

VARIABLES
    pc,                 \* position of the running function
    spoken_len,         \* len(spoken_audio)
    hop_length,
    onset_envelope,     \* onset strength, one value per frame
    onset_frames,       \* detected onset frames, ascending
    target_char_count,
    boundaries,         \* the returned / built boundary array
    \* summarize_char_level_prosody
    sampling_rate,
    chars,              \* the character sequence, spaces included
    volumes,            \* the loudness of each character
    f0_hz,              \* the F0 track, one value per frame, NaN when unvoiced
    char_summary,
    seg_idx,
    nonspace_segments,  \* (s, e, index of the character in chars)
    ci,                 \* index of the next character of the summary loop
    char_axis_pos,      \* positions, each char_idx + num / den
    char_axis_f0,
    seg_ptr,
    fi,                 \* index of the next frame of the contour loop
    emitted_frames,     \* history: the frame each contour point came from
    \* analyze_audio_volume
    full_text,          \* the transcript, a sequence of characters
    char_i,             \* i of the loop over text_no_spaces
    char_volumes,
    words_list,
    word_i,             \* index of the next word of the reconstruction loop
    text_cursor,
    final_char_volumes,
    measured_rms,       \* history: the RMS level behind each entry of char_volumes
    fatal,              \* history: the fatal condition the loudness pass met
    return_value,       \* what analyze_audio_volume has returned
    \* analyze_intonation
    res_intensity,      \* the result of the loudness pass
    response,           \* the returned response
    steps,              \* history: the calls made, in order
    \* the fan-out of run.py and server.py
    entry,              \* "cli" for run.py main, "server" for server.py analyze
    requested,          \* the names of the selected analyses
    max_workers,        \* the max_workers argument
    futures,            \* name -> state of the submitted task
    results,            \* the result map: name -> entry
    output,             \* what main / analyze has returned
    \* the boundaries of the loudness pass, next to those of the selector
    loudness_boundaries

selVars == <<spoken_len, hop_length, onset_envelope, onset_frames,
             target_char_count, boundaries>>

sumVars == <<sampling_rate, chars, volumes, f0_hz, char_summary, seg_idx, nonspace_segments,
             ci, char_axis_pos, char_axis_f0, seg_ptr, fi, emitted_frames>>

volVars == <<full_text, char_i, char_volumes, words_list, word_i, text_cursor,
             final_char_volumes, measured_rms, fatal, return_value>>

anaVars == <<res_intensity, response, steps>>

fanVars == <<entry, requested, max_workers, futures, results, output>>

vars == <<pc, selVars, sumVars, volVars, anaVars, fanVars, loudness_boundaries>>

\* a response that is not there yet
Pending == [status |-> "PENDING"]

AnaIdle ==
    /\ res_intensity = Pending
    /\ response = Pending
    /\ steps = <<>>

FanIdle ==
    /\ entry = "none"
    /\ requested = {}
    /\ max_workers = 0
    /\ futures = <<>>
    /\ results = <<>>
    /\ output = Pending

\* The state of the prosody pass before it runs.
SumIdle ==
    /\ sampling_rate = 0
    /\ chars = <<>>
    /\ volumes = <<>>
    /\ f0_hz = <<>>
    /\ char_summary = <<>>
    /\ seg_idx = 0
    /\ nonspace_segments = <<>>
    /\ ci = 0
    /\ char_axis_pos = <<>>
    /\ char_axis_f0 = <<>>
    /\ seg_ptr = 0
    /\ fi = 0
    /\ emitted_frames = <<>>

\* The state of the loudness pass before it runs.
VolIdle ==
    /\ full_text = <<>>
    /\ char_i = 0
    /\ char_volumes = <<>>
    /\ words_list = <<>>
    /\ word_i = 0
    /\ text_cursor = 0
    /\ final_char_volumes = <<>>
    /\ measured_rms = <<>>
    /\ fatal = "none"
    /\ return_value = "pending"

\* ------------------------------------------------------- sequence helpers
IsNonDecreasing(s) == \A i \in 1..(Len(s) - 1) : s[i] <= s[i + 1]

\* All non-decreasing sequences over lo..hi of length at most n.
NonDecSeqs(lo, hi, n) ==
    {s \in UNION {[1..k -> lo..hi] : k \in 0..n} : IsNonDecreasing(s)}

\* Python s[:n]
Take(s, n) ==
    IF n >= 0 THEN SubSeq(s, 1, IF n < Len(s) THEN n ELSE Len(s))
    ELSE SubSeq(s, 1, Len(s) + n)

\* Variant: x goes in front of the elements of equal key, so that equal
\* keys end up in reverse order.
RECURSIVE InsertDesc_unstable(_, _, _)
InsertDesc_unstable(x, s, strength) ==
    IF s = <<>> THEN <<x>>
    ELSE IF strength[Head(s) + 1] > strength[x + 1]
         THEN <<Head(s)>> \o InsertDesc_unstable(x, Tail(s), strength)
         ELSE <<x>> \o s

\* Insert x into the sequence s, sorted by key descending, behind every
\* element whose key is >= key(x): the sort stays stable.
RECURSIVE InsertDesc(_, _, _)
InsertDesc(x, s, strength) ==
    IF s = <<>> THEN <<x>>
    ELSE IF strength[Head(s) + 1] >= strength[x + 1]
         THEN <<Head(s)>> \o InsertDesc(x, Tail(s), strength)
         ELSE <<x>> \o s

\* sorted(frames, key=lambda fr: onset_strength[fr], reverse=True)
RECURSIVE SortedByStrengthDesc(_, _)
SortedByStrengthDesc(frames, strength) ==
    IF frames = <<>> THEN <<>>
    ELSE InsertDesc(frames[Len(frames)],
                    SortedByStrengthDesc(SubSeq(frames, 1, Len(frames) - 1), strength),
                    strength)

RECURSIVE InsertAsc(_, _)
InsertAsc(x, s) ==
    IF s = <<>> THEN <<x>>
    ELSE IF Head(s) <= x THEN <<Head(s)>> \o InsertAsc(x, Tail(s))
         ELSE <<x>> \o s

\* sorted(frames)
RECURSIVE Sorted(_)
Sorted(frames) ==
    IF frames = <<>> THEN <<>>
    ELSE InsertAsc(frames[Len(frames)], Sorted(SubSeq(frames, 1, Len(frames) - 1)))

\* librosa.frames_to_samples(frames, hop_length=hop)
FramesToSamples(frames, hop) == [i \in 1..Len(frames) |-> frames[i] * hop]

\* Variant: the partition without its end point (endpoint=False).
Linspace_no_endpoint(stop, num) ==
    [i \in 1..num |-> ((i - 1) * stop) \div num]

\* np.linspace(0, stop, num=num, dtype=int)
Linspace(stop, num) ==
    [i \in 1..num |-> IF num = 1 THEN 0 ELSE ((i - 1) * stop) \div (num - 1)]

\* Number of analysis frames of a signal of n samples (centered framing).
FrameCount(n, hop) == 1 + (n \div hop)

\* --------------------------------------------------- the boundary selector
\* Variant: the first target - 1 onsets are kept, whatever their strength.
BoundaryFrames_first(strength, frames, target) ==
    IF Len(frames) > target - 1 THEN Take(frames, target - 1) ELSE frames

BoundaryFrames(strength, frames, target) ==
    IF Len(frames) > target - 1
    THEN Sorted(Take(SortedByStrengthDesc(frames, strength), target - 1))
    ELSE frames

\* Variant: no fall-back to the uniform partition on a count mismatch.
select_boundaries_no_fallback(len, strength, frames, hop, target) ==
    IF target <= 0 THEN <<0, len>>
    ELSE <<0>> \o FramesToSamples(BoundaryFrames(strength, frames, target), hop) \o <<len>>

\* Variant: the uniform partition whenever the onsets are not more than needed.
select_boundaries_uniform_else(len, strength, frames, hop, target) ==
    IF target <= 0 THEN <<0, len>>
    ELSE IF Len(frames) > target - 1
         THEN <<0>> \o FramesToSamples(BoundaryFrames(strength, frames, target), hop)
                  \o <<len>>
         ELSE Linspace(len, target + 1)

\* Variant: the guard of the degenerate case tests < 0 instead of <= 0.
select_boundaries_guard_lt(len, strength, frames, hop, target) ==
    IF target < 0 THEN <<0, len>>
    ELSE LET built == <<0>> \o FramesToSamples(BoundaryFrames(strength, frames, target), hop)
                          \o <<len>>
         IN IF Len(built) # target + 1 THEN Linspace(len, target + 1) ELSE built

\* Variant: one boundary per character instead of one more than that.
select_boundaries_one_short(len, strength, frames, hop, target) ==
    IF target <= 0 THEN <<0, len>>
    ELSE LET built == <<0>> \o FramesToSamples(BoundaryFrames(strength, frames, target), hop)
                          \o <<len>>
         IN IF Len(built) # target THEN Linspace(len, target) ELSE built

select_boundaries_for_chars(len, strength, frames, hop, target) ==
    IF target <= 0 THEN <<0, len>>
    ELSE LET boundary_samples == FramesToSamples(BoundaryFrames(strength, frames, target), hop)
             built == <<0>> \o boundary_samples \o <<len>>
             needed == target + 1
         IN IF Len(built) # needed THEN Linspace(len, needed) ELSE built

\* ------------------------------------------ specification of the selector
SelInit ==
    /\ pc = "select"
    /\ loudness_boundaries = <<>>
    /\ spoken_len \in 0..MaxSpokenLen
    /\ hop_length \in 1..MaxHop
    /\ onset_envelope \in [1..FrameCount(spoken_len, hop_length) -> 0..MaxStrength]
    /\ onset_frames \in NonDecSeqs(0, FrameCount(spoken_len, hop_length) - 1, MaxOnsets)
    /\ target_char_count \in (0 - 1)..MaxChars
    /\ boundaries = <<>>
    /\ SumIdle
    /\ VolIdle
    /\ AnaIdle
    /\ FanIdle

SelectBoundaries ==
    /\ pc = "select"
    /\ UNCHANGED loudness_boundaries
    /\ boundaries' = select_boundaries_for_chars(spoken_len, onset_envelope,
                                                 onset_frames, hop_length,
                                                 target_char_count)
    /\ pc' = "selected"
    /\ UNCHANGED <<spoken_len, hop_length, onset_envelope, onset_frames,
                   target_char_count>>
    /\ UNCHANGED <<sumVars, volVars>>
    /\ UNCHANGED <<anaVars, fanVars>>

SelNext == SelectBoundaries

SelSpec == SelInit /\ [][SelNext]_vars

\* ------------------------------------------------- claims on the selector
Selected == pc = "selected"

\* C1: for target_char_count > 0 the selector returns target_char_count + 1
\* non-decreasing integers, the first 0 and the last spoken_len, so adjacent
\* pairs are contiguous, non-overlapping ranges covering [0, spoken_len).
\* The onset envelope is that of the spoken signal: one value per frame.
C1_BoundarySetShape ==
    (Selected /\ target_char_count > 0) =>
        /\ Len(boundaries) = target_char_count + 1
        /\ \A i \in 1..Len(boundaries) : boundaries[i] \in 0..spoken_len
        /\ \A i \in 1..(Len(boundaries) - 1) : boundaries[i] <= boundaries[i + 1]
        /\ boundaries[1] = 0
        /\ boundaries[Len(boundaries)] = spoken_len

C1_Witness ==
    /\ Selected
    /\ target_char_count = 3
    /\ Len(onset_frames) = 3
    /\ boundaries = <<0, 1, 2, 3>>

\* C2: with more onsets than target_char_count - 1, the interior boundaries
\* are the sample positions frame * hop_length of target_char_count - 1 of
\* the onsets, none of them weaker than an onset left out, listed in
\* ascending position order.
C2_StrongestKeptInPositionOrder ==
    (Selected /\ target_char_count > 0 /\ Len(onset_frames) > target_char_count - 1) =>
        /\ Len(boundaries) = target_char_count + 1
        /\ \E K \in SUBSET (1..Len(onset_frames)) :
              /\ Cardinality(K) = target_char_count - 1
              /\ \A i \in K : \A j \in (1..Len(onset_frames)) \ K :
                    onset_envelope[onset_frames[i] + 1] >= onset_envelope[onset_frames[j] + 1]
              /\ \A n \in 1..(target_char_count - 1) :
                    \E i \in K :
                        /\ Cardinality({k \in K : k <= i}) = n
                        /\ boundaries[n + 1] = onset_frames[i] * hop_length

\* three onsets, the weakest in the middle: the two outer ones are kept
C2_Witness ==
    /\ Selected
    /\ target_char_count = 3
    /\ onset_frames = <<1, 2, 3>>
    /\ onset_envelope[2] = 1 /\ onset_envelope[3] = 0 /\ onset_envelope[4] = 1
    /\ boundaries = <<0, hop_length, 3 * hop_length, spoken_len>>

\* the onset at position i of onset_frames is preferred to the one at
\* position j: it is stronger, or as strong and earlier in the list
PreferredOnset(i, j) ==
    LET si == onset_envelope[onset_frames[i] + 1]
        sj == onset_envelope[onset_frames[j] + 1]
    IN si > sj \/ (si = sj /\ i < j)

\* the sets of target_char_count - 1 positions of onset_frames of which
\* every member is preferred to every position left out; there is at most
\* one such set
KeptOnsetSets ==
    {K \in SUBSET (1..Len(onset_frames)) :
        /\ Cardinality(K) = target_char_count - 1
        /\ \A i \in K : \A j \in (1..Len(onset_frames)) \ K : PreferredOnset(i, j)}

\* C23: the selection is a function of its inputs also under strength ties:
\* of onsets of equal strength at the cut-off, the ones earlier in
\* onset_frames are kept, so the kept set, and with it the boundaries, are
\* determined by the inputs.
C23_TiesKeepEarlierOnsets ==
    (Selected /\ target_char_count > 0 /\ Len(onset_frames) > target_char_count - 1) =>
        /\ Cardinality(KeptOnsetSets) = 1
        /\ \A K \in KeptOnsetSets :
              /\ Len(boundaries) = target_char_count + 1
              /\ boundaries[1] = 0
              /\ boundaries[Len(boundaries)] = spoken_len
              /\ \A i \in K :
                    boundaries[Cardinality({k \in K : k <= i}) + 1] =
                        onset_frames[i] * hop_length

\* two onsets of equal strength and room for one: the earlier one is kept
C23_Witness ==
    /\ Selected
    /\ target_char_count = 2
    /\ hop_length = 1
    /\ spoken_len = 3
    /\ onset_frames = <<1, 2>>
    /\ onset_envelope[2] = onset_envelope[3]
    /\ boundaries = <<0, 1, 3>>

\* C3: with exactly target_char_count - 1 onsets the result is 0, then every
\* onset's sample position in the given order, then spoken_len, whatever the
\* onset strengths are.
C3_AllOnsetsUsedWhenCountMatches ==
    (Selected /\ target_char_count > 0 /\ Len(onset_frames) = target_char_count - 1) =>
        /\ Len(boundaries) = Len(onset_frames) + 2
        /\ boundaries[1] = 0
        /\ \A i \in 1..Len(onset_frames) : boundaries[i + 1] = onset_frames[i] * hop_length
        /\ boundaries[Len(boundaries)] = spoken_len

\* two onsets for three characters, not the uniform partition
C3_Witness ==
    /\ Selected
    /\ target_char_count = 3
    /\ Len(onset_frames) = 2
    /\ onset_envelope[onset_frames[1] + 1] < onset_envelope[onset_frames[2] + 1]
    /\ boundaries = <<0, 0, 1, 3>>

C5_DegenerateTarget ==
    (Selected /\ target_char_count <= 0) => boundaries = <<0, spoken_len>>

C5_Witness ==
    /\ Selected
    /\ target_char_count = 0
    /\ Len(onset_frames) = 2
    /\ spoken_len = 3
    /\ boundaries = <<0, 3>>

\* -------------------------------------- summarize_char_level_prosody
\* [i for i, ch in enumerate(chars) if ch != " "], indices from 0
RECURSIVE NonspaceIndicesFrom(_, _)
NonspaceIndicesFrom(cs, i) ==
    IF i > Len(cs) THEN <<>>
    ELSE (IF cs[i] # " " THEN <<i - 1>> ELSE <<>>) \o NonspaceIndicesFrom(cs, i + 1)

\* Variant: a non-space character is numbered by its rank among the
\* non-space characters.
NonspaceIndices_rank(cs) ==
    [k \in 1..Cardinality({i \in 1..Len(cs) : cs[i] # " "}) |-> k - 1]

NonspaceIndices(cs) == NonspaceIndicesFrom(cs, 1)

\* sum(ch != " " for ch in chars)
NonspaceCount(cs) == Cardinality({i \in 1..Len(cs) : cs[i] # " "})

RECURSIVE SumFrom(_, _)
SumFrom(vals, i) == IF i > Len(vals) THEN 0 ELSE vals[i] + SumFrom(vals, i + 1)

FoldSum(vals) == SumFrom(vals, 1)

\* frame start samples: frames_to_samples(arange(len(f0_hz)))
FrameSample(frame, hop) == frame * hop

\* Variant: the mean of the values.
Median_mean(vals) ==
    LET total == FoldSum(vals) IN total \div Len(vals)

\* np.nanmedian of a non-empty sequence of even values
Median(vals) ==
    LET sorted == Sorted(vals)
        n == Len(sorted)
    IN IF n % 2 = 1 THEN sorted[(n + 1) \div 2]
       ELSE (sorted[n \div 2] + sorted[(n \div 2) + 1]) \div 2

\* the F0 values of the frames fr0 .. nframes - 1 that lie in the segment
\* and are voiced, in frame order
RECURSIVE VoicedInSegment(_, _, _, _, _)
VoicedInSegment(f0, s, e, hop, fr) ==
    IF fr >= Len(f0) THEN <<>>
    ELSE (IF FrameSample(fr, hop) >= s /\ FrameSample(fr, hop) < e /\ f0[fr + 1] # NaN
          THEN <<f0[fr + 1]>> ELSE <<>>)
         \o VoicedInSegment(f0, s, e, hop, fr + 1)

\* representative F0 of the segment [s, e)
SegmentF0(f0, s, e, hop) ==
    LET f0_valid == VoicedInSegment(f0, s, e, hop, 0)
    IN IF f0_valid = <<>> THEN None ELSE Median(f0_valid)

\* Variant: the duration is cut to whole thousandths instead of rounded.
DurationMs_truncated(s, e, sr) ==
    IF e - s <= 0 THEN 0 ELSE ((e - s) * 1000) \div sr

\* round(max(0.0, (e - s) / sampling_rate), 3), in thousandths of a second,
\* ties to the even thousandth
DurationMs(s, e, sr) ==
    IF e - s <= 0 THEN 0
    ELSE LET q == ((e - s) * 1000) \div sr
             r == ((e - s) * 1000) % sr
         IN IF 2 * r > sr \/ (2 * r = sr /\ q % 2 = 1) THEN q + 1 ELSE q

\* Variant: the record of a character without a segment carries the
\* loudness of a space.
ZeroRecord_floor(ch, vol) ==
    [char |-> ch, volume_db |-> 0 - 100, duration_ms |-> 0, f0_hz |-> None]

\* the record of a space, and of a character that is out of boundaries
ZeroRecord(ch, vol) ==
    [char |-> ch, volume_db |-> vol, duration_ms |-> 0, f0_hz |-> None]

\* The arguments of the call: the spoken signal, its sampling rate, the
\* characters and their loudness values.
SumInit ==
    /\ pc = "summarize"
    /\ loudness_boundaries = <<>>
    /\ spoken_len \in 1..MaxAudioLen
    /\ hop_length = HopLength
    /\ onset_envelope = <<>>
    /\ onset_frames = <<>>
    /\ target_char_count = 0
    /\ boundaries = <<>>
    /\ sampling_rate \in SamplingRates
    /\ chars \in UNION {[1..n -> CharAlphabet] : n \in 0..MaxChars}
    /\ volumes \in [1..Len(chars) -> VolumeValues]
    /\ f0_hz = <<>>
    /\ char_summary = <<>>
    /\ seg_idx = 0
    /\ nonspace_segments = <<>>
    /\ ci = 0
    /\ char_axis_pos = <<>>
    /\ char_axis_f0 = <<>>
    /\ seg_ptr = 0
    /\ fi = 0
    /\ emitted_frames = <<>>
    /\ VolIdle
    /\ AnaIdle
    /\ FanIdle

\* lines 173-201: onsets are detected, the boundaries selected, the F0 track
\* computed and the summary loop set up.  The onset envelope and the onset
\* frames are locals that are not read after the selection.
SummarizeBegin ==
    /\ pc = "summarize"
    /\ UNCHANGED loudness_boundaries
    /\ boundaries' \in
          {select_boundaries_for_chars(spoken_len, strength, frames, hop_length,
                                       NonspaceCount(chars)) :
              strength \in [1..FrameCount(spoken_len, hop_length) -> 0..MaxStrength],
              frames \in NonDecSeqs(0, FrameCount(spoken_len, hop_length) - 1, MaxOnsets)}
    /\ target_char_count' = NonspaceCount(chars)
    /\ f0_hz' \in [1..FrameCount(spoken_len, hop_length) -> F0Values]
    /\ char_summary' = <<>>
    /\ seg_idx' = 0
    /\ nonspace_segments' = <<>>
    /\ ci' = 0
    /\ pc' = "chars"
    /\ UNCHANGED <<spoken_len, hop_length, onset_envelope, onset_frames>>
    /\ UNCHANGED <<sampling_rate, chars, volumes, char_axis_pos, char_axis_f0, seg_ptr, fi,
                   emitted_frames>>
    /\ UNCHANGED volVars
    /\ UNCHANGED <<anaVars, fanVars>>

\* one iteration of the loop over zip(chars, volumes), lines 203-242
CharStep ==
    /\ pc = "chars"
    /\ UNCHANGED loudness_boundaries
    /\ ci < Len(chars)
    /\ LET ch == chars[ci + 1]
           vol == volumes[ci + 1]
       IN
         IF ch = " " \/ seg_idx >= Len(boundaries) - 1
         THEN /\ char_summary' = Append(char_summary, ZeroRecord(ch, vol))
              /\ UNCHANGED <<seg_idx, nonspace_segments>>
         ELSE LET s == boundaries[seg_idx + 1]
                  e == boundaries[seg_idx + 2]
                  nonspace_indices == NonspaceIndices(chars)
              IN /\ nonspace_segments' =
                        IF seg_idx < Len(nonspace_indices)
                        THEN Append(nonspace_segments,
                                    <<s, e, nonspace_indices[seg_idx + 1]>>)
                        ELSE nonspace_segments
                 /\ seg_idx' = seg_idx + 1
                 /\ char_summary' = Append(char_summary,
                        [char |-> ch,
                         volume_db |-> vol,
                         duration_ms |-> DurationMs(s, e, sampling_rate),
                         f0_hz |-> SegmentF0(f0_hz, s, e, hop_length)])
    /\ ci' = ci + 1
    /\ UNCHANGED <<pc, selVars>>
    /\ UNCHANGED <<sampling_rate, chars, volumes, f0_hz, char_axis_pos, char_axis_f0, seg_ptr, fi,
                   emitted_frames>>
    /\ UNCHANGED volVars
    /\ UNCHANGED <<anaVars, fanVars>>

\* the summary loop is exhausted; lines 244-247 set up the contour walk
ContourBegin ==
    /\ pc = "chars"
    /\ UNCHANGED loudness_boundaries
    /\ ci >= Len(chars)
    /\ char_axis_pos' = <<>>
    /\ char_axis_f0' = <<>>
    /\ seg_ptr' = 0
    /\ fi' = 0
    /\ emitted_frames' = <<>>
    /\ pc' = "frames"
    /\ UNCHANGED selVars
    /\ UNCHANGED <<sampling_rate, chars, volumes, f0_hz, char_summary, seg_idx, nonspace_segments, ci>>
    /\ UNCHANGED volVars
    /\ UNCHANGED <<anaVars, fanVars>>

\* the while loop of lines 251-252: the pointer after it has advanced past
\* every segment that ends at or before the sample fs
RECURSIVE AdvancePointer(_, _, _)
AdvancePointer(ptr, segs, fs) ==
    IF ptr < Len(segs) /\ fs >= segs[ptr + 1][2]
    THEN AdvancePointer(ptr + 1, segs, fs)
    ELSE ptr

\* Variant: the progress is measured from the end of the segment.
CharAxisPosition_from_end(fs, s, e, char_idx) ==
    [idx |-> char_idx, num |-> IF e - s > 0 THEN e - fs ELSE 0,
     den |-> IF e - s > 0 THEN e - s ELSE 1]

\* x = float(char_idx) + frac, frac = (fs - s) / (e - s), 0.0 for an empty
\* segment: the position idx + num / den
CharAxisPosition(fs, s, e, char_idx) ==
    [idx |-> char_idx, num |-> IF e - s > 0 THEN fs - s ELSE 0,
     den |-> IF e - s > 0 THEN e - s ELSE 1]

\* Variant: an unvoiced frame adds no entry to the F0 list.
AppendContourF0_voiced_only(f0_list, f0) ==
    IF f0 = NaN THEN f0_list ELSE Append(f0_list, f0)

\* char_axis_f0.append(None if np.isnan(f0) else float(f0))
AppendContourF0(f0_list, f0) == Append(f0_list, IF f0 = NaN THEN None ELSE f0)

\* one iteration of the loop over zip(frame_samples, f0_hz), lines 249-267
FrameStep ==
    /\ pc = "frames"
    /\ UNCHANGED loudness_boundaries
    /\ fi < Len(f0_hz)
    /\ LET fs == FrameSample(fi, hop_length)
           f0 == f0_hz[fi + 1]
           ptr == AdvancePointer(seg_ptr, nonspace_segments, fs)
       IN /\ seg_ptr' = ptr
          /\ IF ptr >= Len(nonspace_segments)
             THEN \* break
                  /\ pc' = "contour_done"
                  /\ UNCHANGED <<char_axis_pos, char_axis_f0, emitted_frames, fi>>
             ELSE LET s == nonspace_segments[ptr + 1][1]
                      e == nonspace_segments[ptr + 1][2]
                      char_idx == nonspace_segments[ptr + 1][3]
                  IN /\ pc' = pc
                     /\ fi' = fi + 1
                     /\ IF fs < s \/ fs >= e \/ e <= s
                        THEN \* continue
                             UNCHANGED <<char_axis_pos, char_axis_f0, emitted_frames>>
                        ELSE /\ char_axis_pos' = Append(char_axis_pos,
                                    CharAxisPosition(fs, s, e, char_idx))
                             /\ char_axis_f0' = AppendContourF0(char_axis_f0, f0)
                             /\ emitted_frames' = Append(emitted_frames, fi)
    /\ UNCHANGED selVars
    /\ UNCHANGED <<sampling_rate, chars, volumes, f0_hz, char_summary, seg_idx, nonspace_segments, ci>>
    /\ UNCHANGED volVars
    /\ UNCHANGED <<anaVars, fanVars>>

\* the frames are exhausted
ContourEnd ==
    /\ pc = "frames"
    /\ UNCHANGED loudness_boundaries
    /\ fi >= Len(f0_hz)
    /\ pc' = "contour_done"
    /\ UNCHANGED <<selVars, sumVars, volVars>>
    /\ UNCHANGED <<anaVars, fanVars>>

\* lines 269-278
SummarizeReturn ==
    /\ pc = "contour_done"
    /\ UNCHANGED loudness_boundaries
    /\ pc' = "summarized"
    /\ UNCHANGED <<selVars, sumVars, volVars>>
    /\ UNCHANGED <<anaVars, fanVars>>

SumNext ==
    \/ SummarizeBegin
    \/ CharStep
    \/ ContourBegin
    \/ FrameStep
    \/ ContourEnd
    \/ SummarizeReturn

SumSpec == SumInit /\ [][SumNext]_vars

\* ------------------------------------------ claims on the pitch contour
\* position p lies before or at position q
PosLeq(p, q) == (p.idx * p.den + p.num) * q.den <= (q.idx * q.den + q.num) * p.den

\* position p is below the integer n
PosBelow(p, n) == p.idx * p.den + p.num < n * p.den

ContourNonDecreasing ==
    \A k \in 1..(Len(char_axis_pos) - 1) : PosLeq(char_axis_pos[k], char_axis_pos[k + 1])

\* C6 as stated: the emitted positions are non-decreasing in frame order and
\* every one lies in [0, number of non-space characters).
C6_PositionsBelowNonspaceCount ==
    /\ ContourNonDecreasing
    /\ \A k \in 1..Len(char_axis_pos) :
          /\ char_axis_pos[k].idx >= 0 /\ char_axis_pos[k].num >= 0
          /\ PosBelow(char_axis_pos[k], NonspaceCount(chars))

\* C6, amended: the emitted positions are non-decreasing in frame order and
\* every one lies in [0, number of characters), spaces counted.
C6_PositionsBelowCharCount ==
    /\ ContourNonDecreasing
    /\ \A k \in 1..Len(char_axis_pos) :
          /\ char_axis_pos[k].idx >= 0 /\ char_axis_pos[k].num >= 0
          /\ PosBelow(char_axis_pos[k], Len(chars))

\* a space before the last character, whose segment emits a point at the
\* number of non-space characters
C6_Witness ==
    /\ pc = "summarized"
    /\ chars = <<"a", " ", "a">>
    /\ Len(char_axis_pos) = 2
    /\ char_axis_pos[1].idx = 0
    /\ char_axis_pos[2].idx = 2

\* the rank of the character at index idx (from 0) among the non-space ones
NonspaceRank(cs, idx) == Cardinality({i \in 1..idx : cs[i] # " "})

\* C7: every emitted position is character_index + progress: the index, in
\* the whole character sequence, of the non-space character whose segment
\* [s, e) contains the start sample of the frame, and the progress
\* (frame_sample - s) / (e - s), which is in [0, 1); the integer part of a
\* position never designates a space.
C7_PositionIsIndexPlusProgress ==
    /\ Len(emitted_frames) = Len(char_axis_pos)
    /\ \A k \in 1..Len(char_axis_pos) :
          LET p == char_axis_pos[k]
              fs == emitted_frames[k] * hop_length
              r == NonspaceRank(chars, p.idx)
          IN /\ p.idx \in 0..(Len(chars) - 1)
             /\ chars[p.idx + 1] # " "
             /\ r + 2 <= Len(boundaries)
             /\ boundaries[r + 1] <= fs /\ fs < boundaries[r + 2]
             /\ p.num = fs - boundaries[r + 1]
             /\ p.den = boundaries[r + 2] - boundaries[r + 1]
             /\ 0 <= p.num /\ p.num < p.den

\* a point half way through the segment of a character that follows a space
C7_Witness ==
    /\ pc = "summarized"
    /\ chars = <<" ", "a">>
    /\ boundaries = <<0, 4>>
    /\ Len(char_axis_pos) = 2
    /\ char_axis_pos[2] = [idx |-> 1, num |-> 2, den |-> 4]

\* ------------------------------------- claims on the character summary
\* the loop over the characters has run to its end
CharLoopDone == pc \in {"frames", "contour_done", "summarized"}

\* C11: the character summary has exactly one record per input character,
\* spaces included, in input order; each record carries its input character
\* and its input loudness unchanged; every record of a space has duration 0
\* and no pitch.
C11_OneRecordPerCharacter ==
    /\ pc = "chars" => Len(char_summary) = ci
    /\ CharLoopDone => Len(char_summary) = Len(chars)
    /\ \A k \in 1..Len(char_summary) :
          /\ k <= Len(chars)
          /\ char_summary[k].char = chars[k]
          /\ char_summary[k].volume_db = volumes[k]
          /\ chars[k] = " " =>
                char_summary[k].duration_ms = 0 /\ char_summary[k].f0_hz = None

\* a space between two characters, whose loudness is not the one of silence
C11_Witness ==
    /\ pc = "summarized"
    /\ chars = <<"a", " ", "a">>
    /\ volumes = <<0 - 100, 0 - 20, 0 - 20>>
    /\ Len(char_summary) = 3
    /\ char_summary[2] = [char |-> " ", volume_db |-> 0 - 20, duration_ms |-> 0,
                          f0_hz |-> None]

\* the frames of the F0 track that start in [s, e) and are voiced
VoicedFrames(s, e) ==
    {fr \in 0..(Len(f0_hz) - 1) :
        s <= fr * hop_length /\ fr * hop_length < e /\ f0_hz[fr + 1] # NaN}

\* v is the j-th smallest of the F0 values of the frames in F
IsOrderStatistic(F, j, v) ==
    /\ \E fr \in F : f0_hz[fr + 1] = v
    /\ Cardinality({fr \in F : f0_hz[fr + 1] < v}) < j
    /\ j <= Cardinality({fr \in F : f0_hz[fr + 1] <= v})

\* m is the median of the F0 values of the frames in F
IsMedianOf(F, m) ==
    LET n == Cardinality(F) IN
    \E lo \in F0Values, hi \in F0Values :
        /\ IsOrderStatistic(F, (n + 1) \div 2, lo)
        /\ IsOrderStatistic(F, (n \div 2) + 1, hi)
        /\ 2 * m = lo + hi

\* C12: the pitch of the i-th non-space character is the median of the F0
\* values of exactly the frames that start in [boundary[i], boundary[i+1])
\* and are voiced; it is None when there is no such frame.
C12_PitchIsMedianOfVoicedFramesInSegment ==
    \A k \in 1..Len(char_summary) :
        chars[k] # " " =>
            LET r == NonspaceRank(chars, k - 1) IN
            /\ r + 2 <= Len(boundaries)
            /\ LET F == VoicedFrames(boundaries[r + 1], boundaries[r + 2]) IN
               IF F = {} THEN char_summary[k].f0_hz = None
               ELSE IsMedianOf(F, char_summary[k].f0_hz)

\* three voiced frames in the segment of one character: the median is 4, the
\* mean is not
C12_Witness ==
    /\ pc = "summarized"
    /\ chars = <<"a">>
    /\ boundaries = <<0, 5>>
    /\ f0_hz = <<2, 4, 4>>
    /\ char_summary[1].f0_hz = 4

\* an unvoiced frame inside the segment and a voiced one outside of it
C12_WitnessUnvoiced ==
    /\ pc = "summarized"
    /\ chars = <<"a", "a">>
    /\ boundaries = <<0, 4, 5>>
    /\ f0_hz = <<NaN, 2, 4>>
    /\ char_summary[1].f0_hz = 2
    /\ char_summary[2].f0_hz = 4

\* C13 as stated: the reported duration of a non-space character is exactly
\* (boundary[i+1] - boundary[i]) / sampling_rate.
C13_DurationIsExactQuotient ==
    \A k \in 1..Len(char_summary) :
        chars[k] # " " =>
            LET r == NonspaceRank(chars, k - 1) IN
            /\ r + 2 <= Len(boundaries)
            /\ char_summary[k].duration_ms * sampling_rate =
                  (boundaries[r + 2] - boundaries[r + 1]) * 1000

\* C13, amended: the reported duration of a non-space character is
\* (boundary[i+1] - boundary[i]) / sampling_rate rounded to the nearest
\* thousandth of a second; it depends on the two boundaries and the sampling
\* rate only, and a segment without any frame still gets it, with no pitch.
C13_DurationIsQuotientRoundedToThousandths ==
    \A k \in 1..Len(char_summary) :
        chars[k] # " " =>
            LET r == NonspaceRank(chars, k - 1) IN
            /\ r + 2 <= Len(boundaries)
            /\ LET s == boundaries[r + 1]
                   e == boundaries[r + 2]
                   d == char_summary[k].duration_ms
                   err == d * sampling_rate - (e - s) * 1000
               IN /\ d >= 0
                  /\ e >= s
                  /\ 2 * err <= sampling_rate /\ 2 * (0 - err) <= sampling_rate
                  /\ {fr \in 0..(Len(f0_hz) - 1) : s <= fr * hop_length /\ fr * hop_length < e}
                        = {} => char_summary[k].f0_hz = None

\* a segment of one sample at 3 samples per second, which holds no frame:
\* 0.333 s and no pitch
C13_Witness ==
    /\ pc = "summarized"
    /\ sampling_rate = 3
    /\ boundaries = <<0, 1, 2, 4>>
    /\ chars = <<"a", "a", "a">>
    /\ char_summary[2].duration_ms = 333
    /\ char_summary[2].f0_hz = None

\* the emitted frames are in strictly increasing order
EmittedFramesIncrease ==
    \A k \in 1..(Len(emitted_frames) - 1) : emitted_frames[k] < emitted_frames[k + 1]

\* the frame about to be visited starts inside the segment the pointer
\* designates after the step
FrameInsidePointedSegment ==
    /\ seg_ptr' < Len(nonspace_segments)
    /\ nonspace_segments[seg_ptr' + 1][1] <= fi * hop_length
    /\ fi * hop_length < nonspace_segments[seg_ptr' + 1][2]

\* one step of the contour walk
ContourWalkStep ==
    /\ seg_ptr' >= seg_ptr
    /\ fi' >= fi
    /\ (pc = "frames" /\ fi < Len(f0_hz)) =>
          IF FrameInsidePointedSegment
          THEN /\ Len(char_axis_pos') = Len(char_axis_pos) + 1
               /\ Len(char_axis_f0') = Len(char_axis_f0) + 1
               /\ emitted_frames' = Append(emitted_frames, fi)
          ELSE UNCHANGED <<char_axis_pos, char_axis_f0, emitted_frames>>
    /\ (pc \in {"frames", "contour_done"} /\ seg_ptr >= Len(nonspace_segments)) =>
          UNCHANGED <<char_axis_pos, char_axis_f0, emitted_frames>>

\* C18: the contour walk visits the frames in increasing order with a
\* segment pointer that never decreases; a frame emits exactly one point
\* when it starts inside the pointed segment and nothing otherwise; no frame
\* emits once the pointer has passed the last segment; char_axis and f0_hz
\* have the same length, at most the number of frames, and no frame is
\* emitted twice.
C18_ContourWalk ==
    /\ [](/\ Len(char_axis_pos) = Len(char_axis_f0)
          /\ Len(char_axis_pos) = Len(emitted_frames)
          /\ Len(char_axis_pos) <= Len(f0_hz)
          /\ EmittedFramesIncrease)
    /\ [][ContourWalkStep]_vars

\* two characters with one frame each, and a third frame that finds the
\* pointer past the last segment
C18_Witness ==
    /\ pc = "contour_done"
    /\ chars = <<"a", "a">>
    /\ boundaries = <<0, 2, 4>>
    /\ seg_ptr = 2
    /\ fi = 2
    /\ Len(f0_hz) = 3
    /\ emitted_frames = <<0, 1>>
    /\ Len(char_axis_f0) = 2

\* C19: as many segments are assigned as there are non-space characters;
\* the non-space character of rank i gets (boundary[i], boundary[i+1]), and
\* the branch for a non-space character without a boundary pair is never
\* taken.
C19_EveryNonspaceCharacterGetsItsSegment ==
    /\ Len(nonspace_segments) = seg_idx
    /\ pc = "chars" => seg_idx = NonspaceRank(chars, ci)
    /\ (pc = "chars" /\ ci < Len(chars) /\ chars[ci + 1] # " ") =>
          seg_idx < Len(boundaries) - 1
    /\ CharLoopDone =>
          Len(nonspace_segments) = Cardinality({i \in 1..Len(chars) : chars[i] # " "})
    /\ \A k \in 1..Len(nonspace_segments) :
          LET seg == nonspace_segments[k] IN
          /\ k + 1 <= Len(boundaries)
          /\ seg[1] = boundaries[k] /\ seg[2] = boundaries[k + 1]
          /\ seg[3] \in 0..(Len(chars) - 1)
          /\ chars[seg[3] + 1] # " "
          /\ NonspaceRank(chars, seg[3]) = k - 1
          /\ char_summary[seg[3] + 1].duration_ms =
                DurationMs(seg[1], seg[2], sampling_rate)

\* two characters around a space, each with its own segment
C19_Witness ==
    /\ pc = "summarized"
    /\ chars = <<"a", " ", "a">>
    /\ boundaries = <<0, 2, 4>>
    /\ nonspace_segments = <<<<0, 2, 0>>, <<2, 4, 2>>>>

\* ------------------------------------------------ analyze_audio_volume
\* full_text.replace(" ", "")
RECURSIVE RemoveSpaces(_)
RemoveSpaces(text) ==
    IF text = <<>> THEN <<>>
    ELSE (IF Head(text) = " " THEN <<>> ELSE <<Head(text)>>) \o RemoveSpaces(Tail(text))

\* full_text.split(): the maximal runs of non-space characters; word is the
\* run being read
RECURSIVE SplitFrom(_, _)
SplitFrom(text, word) ==
    IF text = <<>> THEN (IF word = <<>> THEN <<>> ELSE <<word>>)
    ELSE IF Head(text) = " "
         THEN (IF word = <<>> THEN <<>> ELSE <<word>>) \o SplitFrom(Tail(text), <<>>)
         ELSE SplitFrom(Tail(text), Append(word, Head(text)))

Split(text) == SplitFrom(text, <<>>)

\* lines 68-75: the boundaries of the loudness pass
VolumeBoundaries(len, strength, frames, hop, count) ==
    <<0>> \o FramesToSamples(BoundaryFrames(strength, frames, count), hop) \o <<len>>

\* round(20 * log10(rms + 1e-9), 2) of the two levels of RmsValues
VolumeDb(rms) == IF rms = 0 THEN 0 - 180 ELSE 0

SpaceRecord == [char |-> " ", volume |-> 0 - 100]

\* Variant: the last segment record is never handed out.
RECURSIVE ConsumeWord_short(_, _, _, _)
ConsumeWord_short(final, cursor, word, cv) ==
    IF word = <<>> THEN <<final, cursor>>
    ELSE IF cursor < Len(cv) - 1
         THEN ConsumeWord_short(Append(final, cv[cursor + 1]), cursor + 1, Tail(word), cv)
         ELSE ConsumeWord_short(final, cursor, Tail(word), cv)

\* lines 95-98: the loop over the characters of one word; the result is the
\* pair (final_char_volumes, text_cursor) after it
RECURSIVE ConsumeWord(_, _, _, _)
ConsumeWord(final, cursor, word, cv) ==
    IF word = <<>> THEN <<final, cursor>>
    ELSE IF cursor < Len(cv)
         THEN ConsumeWord(Append(final, cv[cursor + 1]), cursor + 1, Tail(word), cv)
         ELSE ConsumeWord(final, cursor, Tail(word), cv)

\* the conditions that end the pass before the transcript is there: the
\* file is missing (15-18), it cannot be read (20-24), the speech is not
\* recognised (44-46), the recognition service cannot be reached (47-49)
LoadFailures == {"file_missing", "load_error", "unrecognizable", "service_unavailable"}

VolInit ==
    /\ pc = "load"
    /\ loudness_boundaries = <<>>
    /\ full_text = <<>>
    /\ spoken_len = 0
    /\ hop_length = HopLength
    /\ onset_envelope = <<>>
    /\ onset_frames = <<>>
    /\ target_char_count = 0
    /\ boundaries = <<>>
    /\ char_i = 0
    /\ char_volumes = <<>>
    /\ words_list = <<>>
    /\ word_i = 0
    /\ text_cursor = 0
    /\ final_char_volumes = <<>>
    /\ measured_rms = <<>>
    /\ fatal = "none"
    /\ return_value = "pending"
    /\ SumIdle
    /\ AnaIdle
    /\ FanIdle

\* lines 15-49: the file is looked up, loaded and transcribed; each failure
\* prints a message and returns without a value
VolumeLoad ==
    /\ pc = "load"
    /\ UNCHANGED loudness_boundaries
    /\ \/ \E cond \in LoadFailures :
             /\ fatal' = cond
             /\ return_value' = "None"
             /\ pc' = "returned_none"
             /\ UNCHANGED full_text
       \/ /\ full_text' \in UNION {[1..n -> TextAlphabet] : n \in 0..MaxTextLen}
          /\ pc' = "volume"
          /\ UNCHANGED <<fatal, return_value>>
    /\ UNCHANGED <<selVars, sumVars, anaVars, fanVars>>
    /\ UNCHANGED <<char_i, char_volumes, words_list, word_i, text_cursor,
                   final_char_volumes, measured_rms>>

\* lines 51-77: the silence is trimmed, the onsets are detected and the
\* boundaries built; no speech interval or an empty transcript ends the pass
VolumeBegin ==
    /\ pc = "volume"
    /\ UNCHANGED loudness_boundaries
    /\ \E len \in 0..MaxVolumeLen :
            /\ spoken_len' = len
            /\ IF len = 0 \/ RemoveSpaces(full_text) = <<>>
               THEN /\ pc' = "returned_none"
                    /\ fatal' = IF len = 0 THEN "no_speech_interval" ELSE "empty_transcript"
                    /\ return_value' = "None"
                    /\ UNCHANGED boundaries
               ELSE /\ pc' = "segments"
                    /\ boundaries' \in
                          {VolumeBoundaries(len, strength, frames, hop_length,
                                            Len(RemoveSpaces(full_text))) :
                              strength \in [1..FrameCount(len, hop_length) -> 0..MaxStrength],
                              frames \in NonDecSeqs(0, FrameCount(len, hop_length) - 1,
                                                    MaxOnsets)}
                    /\ UNCHANGED <<fatal, return_value>>
    /\ char_volumes' = <<>>
    /\ char_i' = 0
    /\ UNCHANGED <<hop_length, onset_envelope, onset_frames, target_char_count>>
    /\ UNCHANGED <<full_text, words_list, word_i, text_cursor, final_char_volumes,
                   measured_rms>>
    /\ UNCHANGED sumVars
    /\ UNCHANGED <<anaVars, fanVars>>

\* one iteration of the loop over text_no_spaces, lines 78-89
SegmentStep ==
    /\ pc = "segments"
    /\ UNCHANGED loudness_boundaries
    /\ char_i < Len(RemoveSpaces(full_text))
    /\ IF char_i >= Len(boundaries) - 1
       THEN \* break
            /\ pc' = "words"
            /\ UNCHANGED <<char_i, char_volumes, measured_rms>>
       ELSE LET start_sample == boundaries[char_i + 1]
                end_sample == boundaries[char_i + 2]
            IN /\ pc' = pc
               /\ char_i' = char_i + 1
               /\ IF end_sample - start_sample > 0
                  THEN \E rms \in RmsValues :
                          /\ char_volumes' = Append(char_volumes,
                                [char |-> RemoveSpaces(full_text)[char_i + 1],
                                 volume |-> VolumeDb(rms)])
                          /\ measured_rms' = Append(measured_rms, rms)
                  ELSE UNCHANGED <<char_volumes, measured_rms>>
    /\ UNCHANGED <<selVars, sumVars>>
    /\ UNCHANGED <<anaVars, fanVars>>
    /\ UNCHANGED <<full_text, words_list, word_i, text_cursor, final_char_volumes,
                   fatal, return_value>>

\* the characters are exhausted
SegmentsEnd ==
    /\ pc = "segments"
    /\ UNCHANGED loudness_boundaries
    /\ char_i >= Len(RemoveSpaces(full_text))
    /\ pc' = "words"
    /\ UNCHANGED <<selVars, sumVars, volVars>>
    /\ UNCHANGED <<anaVars, fanVars>>

\* lines 91-93
ReconstructBegin ==
    /\ pc = "words"
    /\ UNCHANGED loudness_boundaries
    /\ words_list' = Split(full_text)
    /\ final_char_volumes' = <<>>
    /\ text_cursor' = 0
    /\ word_i' = 0
    /\ pc' = "reconstruct"
    /\ UNCHANGED <<selVars, sumVars>>
    /\ UNCHANGED <<anaVars, fanVars>>
    /\ UNCHANGED <<full_text, char_i, char_volumes, measured_rms, fatal, return_value>>

\* one iteration of the loop over words_list, lines 94-100
WordStep ==
    /\ pc = "reconstruct"
    /\ UNCHANGED loudness_boundaries
    /\ word_i < Len(words_list)
    /\ LET word == words_list[word_i + 1]
           consumed == ConsumeWord(final_char_volumes, text_cursor, word, char_volumes)
       IN /\ final_char_volumes' =
                IF word # words_list[Len(words_list)]
                THEN Append(consumed[1], SpaceRecord)
                ELSE consumed[1]
          /\ text_cursor' = consumed[2]
    /\ word_i' = word_i + 1
    /\ UNCHANGED <<pc, selVars, sumVars>>
    /\ UNCHANGED <<anaVars, fanVars>>
    /\ UNCHANGED <<full_text, char_i, char_volumes, words_list, measured_rms, fatal,
                   return_value>>

\* the words are exhausted; lines 102-104: an empty list ends the pass
ReconstructEnd ==
    /\ pc = "reconstruct"
    /\ UNCHANGED loudness_boundaries
    /\ word_i >= Len(words_list)
    /\ pc' = IF final_char_volumes = <<>> THEN "returned_none" ELSE "reconstructed"
    /\ return_value' = IF final_char_volumes = <<>> THEN "None" ELSE return_value
    /\ UNCHANGED <<selVars, sumVars>>
    /\ UNCHANGED <<full_text, char_i, char_volumes, words_list, word_i, text_cursor,
                   final_char_volumes, measured_rms, fatal>>
    /\ UNCHANGED <<anaVars, fanVars>>

VolNext ==
    \/ VolumeLoad
    \/ VolumeBegin
    \/ SegmentStep
    \/ SegmentsEnd
    \/ ReconstructBegin
    \/ WordStep
    \/ ReconstructEnd

VolSpec == VolInit /\ [][VolNext]_vars

\* ------------------------------------ claims on the character reconstructor
\* the reconstruction loop has run to its end
Reconstructed ==
    \/ pc = "reconstruct" /\ word_i >= Len(words_list)
    \/ pc = "reconstructed"

IsNonspaceRecord(r) == r.char # " "

\* C8: the non-space records of final_char_volumes are the records of
\* char_volumes, as many and in the same order, for a transcript of at least
\* one word.
C8_ReconstructionRoundTrip ==
    Reconstructed => SelectSeq(final_char_volumes, IsNonspaceRecord) = char_volumes

\* two words, fewer segments than characters, records on both sides of the
\* space
C8_Witness ==
    /\ pc = "reconstructed"
    /\ Len(words_list) = 2
    /\ Len(RemoveSpaces(full_text)) = 4
    /\ Len(char_volumes) = 3
    /\ Len(final_char_volumes) = 4
    /\ final_char_volumes[3] = SpaceRecord

\* the reconstruction in which the word's position, not its text, decides
\* whether a space record follows it
RECURSIVE ReconstructByPosition(_, _, _, _, _)
ReconstructByPosition(words, j, final, cursor, cv) ==
    IF j > Len(words) THEN final
    ELSE LET consumed == ConsumeWord(final, cursor, words[j], cv)
         IN ReconstructByPosition(words, j + 1,
                IF j < Len(words) THEN Append(consumed[1], SpaceRecord) ELSE consumed[1],
                consumed[2], cv)

\* C9: for k >= 1 words a space record (char ' ', volume -100.0) follows each
\* of the first k - 1 words and none follows the last, also when an earlier
\* word is textually equal to the last word.
C9_SpaceAfterEveryWordButTheLast ==
    Reconstructed =>
        final_char_volumes = ReconstructByPosition(words_list, 1, <<>>, 0, char_volumes)

\* the words joined by one space
RECURSIVE JoinWords(_)
JoinWords(words) ==
    IF words = <<>> THEN <<>>
    ELSE IF Len(words) = 1 THEN words[1]
    ELSE words[1] \o <<" ">> \o JoinWords(Tail(words))

\* C10: the characters of final_char_volumes are the characters of the
\* transcript with one space between consecutive words; position by position
\* each non-space record carries the character of the transcript at that
\* position, also with an empty segment or with fewer segments than
\* characters.
C10_TranscriptRestored ==
    Reconstructed =>
        \A k \in 1..Len(final_char_volumes) :
            final_char_volumes[k].char # " " =>
                /\ k <= Len(JoinWords(Split(full_text)))
                /\ final_char_volumes[k].char = JoinWords(Split(full_text))[k]

\* ------------------------------------------- claims on the loudness pass
\* C16 as stated: every fatal condition of an analysis (input file missing,
\* speech not recognised, recognition service unavailable, no speech
\* interval, empty transcript) reaches the caller as an ErrorResponse; the
\* function does not return None.
C16_FatalConditionReturnsErrorResponse ==
    /\ return_value # "None"
    /\ fatal # "none" => return_value = "ErrorResponse"

\* C17 as stated: a measured segment whose RMS is 0 is reported with exactly
\* -100 dB, and no measured segment is reported with less than -100 dB.
C17_SilentSegmentClampedToFloor ==
    /\ Len(measured_rms) = Len(char_volumes)
    /\ \A k \in 1..Len(char_volumes) :
          /\ char_volumes[k].volume >= 0 - 100
          /\ measured_rms[k] = 0 => char_volumes[k].volume = 0 - 100

\* ------------------------- the two boundary builders on the same inputs
\* The selector of the prosody pass and the boundary construction of the
\* loudness pass are applied to one spoken signal, one onset envelope, one
\* list of onset frames, one hop length and one character count.
BndInit == SelInit

\* intensity.py 68-75 on the inputs of the selector; the loudness pass gets
\* this far with a non-empty spoken signal and a non-empty transcript only
LoudnessBoundaries ==
    /\ pc = "selected"
    /\ spoken_len > 0
    /\ target_char_count > 0
    /\ loudness_boundaries' = VolumeBoundaries(spoken_len, onset_envelope, onset_frames,
                                               hop_length, target_char_count)
    /\ pc' = "both_built"
    /\ UNCHANGED <<selVars, sumVars, volVars, anaVars, fanVars>>

BndNext ==
    \/ SelectBoundaries
    \/ LoudnessBoundaries

BndSpec == BndInit /\ [][BndNext]_vars

\* C21 as stated: for the same spoken length, onset envelope, onset frames,
\* hop length and character count N > 0, the boundaries built inside the
\* loudness pass equal the result of select_boundaries_for_chars, and have
\* N + 1 entries.
C21_LoudnessBoundariesEqualSelector ==
    pc = "both_built" =>
        /\ loudness_boundaries = boundaries
        /\ Len(loudness_boundaries) = target_char_count + 1

\* ---------------------------------------------------- analyze_intonation
\* ErrorResponse(error_name, error_details): status "ERROR", the name, and
\* the time of construction
ErrorResponse(name, time) == [status |-> "ERROR", error_name |-> name, time |-> time]

\* IntensityResponse with status SUCCESS and the list of {char, volume}
IntensityResponse(cv) == [status |-> "SUCCESS", char_volumes |-> cv]

\* the records {char, volume} of a loudness result
CharVolumeRecords == [char : CharAlphabet, volume : VolumeValues]

\* What analyze_intensity returns: a failure value of one of its stages, or
\* the characters of the transcript with a loudness each.
IntensityOutcomes ==
    {ErrorResponse(name, time) : name \in IntensityErrorNames, time \in Times}
    \cup {IntensityResponse(cv) :
            cv \in UNION {[1..n -> CharVolumeRecords] : n \in 1..MaxChars}}

\* isinstance(res_intensity, ErrorResponse)
IsErrorResponse(r) == r.status = "ERROR"

\* Variant: the characters are listed from the last to the first.
CharsOf_reversed(cv) == [k \in 1..Len(cv) |-> cv[Len(cv) + 1 - k].char]

\* chars = [d["char"] for d in char_volumes]
CharsOf(cv) == [k \in 1..Len(cv) |-> cv[k].char]

\* volumes = [d["volume"] for d in char_volumes]
VolumesOf(cv) == [k \in 1..Len(cv) |-> cv[k].volume]

\* Variant: an empty spoken signal is not a failure.
SilenceRemovalFailed_never(len) == FALSE

\* spoken_audio.size == 0
SilenceRemovalFailed(len) == len = 0

\* IntonationResponse(status="SUCCESS", char_summary, pitch_contour_char)
IntonationResponse(summary, axis, f0, cs) ==
    [status |-> "SUCCESS", char_summary |-> summary,
     pitch_contour_char |-> [char_axis |-> axis, f0_hz |-> f0, chars |-> cs]]

AnaInit ==
    /\ pc = "intonation"
    /\ loudness_boundaries = <<>>
    /\ spoken_len = 0
    /\ hop_length = HopLength
    /\ onset_envelope = <<>>
    /\ onset_frames = <<>>
    /\ target_char_count = 0
    /\ boundaries = <<>>
    /\ SumIdle
    /\ VolIdle
    /\ AnaIdle
    /\ FanIdle

\* lines 302-308: the loudness pass runs; its failure is returned as it is,
\* its characters and volumes are taken over otherwise
IntensityPass ==
    /\ pc = "intonation"
    /\ UNCHANGED loudness_boundaries
    /\ res_intensity' \in IntensityOutcomes
    /\ steps' = Append(steps, "analyze_intensity")
    /\ IF IsErrorResponse(res_intensity')
       THEN /\ response' = res_intensity'
            /\ pc' = "returned"
            /\ UNCHANGED <<chars, volumes>>
       ELSE /\ chars' = CharsOf(res_intensity'.char_volumes)
            /\ volumes' = VolumesOf(res_intensity'.char_volumes)
            /\ pc' = "load"
            /\ UNCHANGED response
    /\ UNCHANGED <<selVars, volVars, fanVars>>
    /\ UNCHANGED <<sampling_rate, f0_hz, char_summary, seg_idx, nonspace_segments,
                   ci, char_axis_pos, char_axis_f0, seg_ptr, fi, emitted_frames>>

\* lines 311-317: the audio is loaded and trimmed; load_audio raises when
\* the file is not there, and an empty spoken signal is a failure
LoadAndTrim ==
    /\ pc = "load"
    /\ UNCHANGED loudness_boundaries
    /\ \/ /\ steps' = Append(steps, "load_audio")
          /\ response' = [status |-> "RAISED", error_name |-> "FileNotFoundError"]
          /\ pc' = "raised"
          /\ UNCHANGED <<spoken_len, sampling_rate>>
       \/ /\ steps' = steps \o <<"load_audio", "compute_spoken_audio">>
          /\ sampling_rate' \in SamplingRates
          /\ spoken_len' \in 0..MaxAudioLen
          /\ IF SilenceRemovalFailed(spoken_len')
             THEN /\ \E time \in Times :
                       response' = ErrorResponse("Cannot Remove Silent Intervals", time)
                  /\ pc' = "returned"
             ELSE /\ pc' = "summarize"
                  /\ UNCHANGED response
    /\ UNCHANGED <<hop_length, onset_envelope, onset_frames, target_char_count, boundaries>>
    /\ UNCHANGED <<chars, volumes, f0_hz, char_summary, seg_idx, nonspace_segments,
                   ci, char_axis_pos, char_axis_f0, seg_ptr, fi, emitted_frames>>
    /\ UNCHANGED <<res_intensity, volVars, fanVars>>

\* lines 326-332
BuildResponse ==
    /\ pc = "summarized"
    /\ UNCHANGED loudness_boundaries
    /\ response' = IntonationResponse(char_summary, char_axis_pos, char_axis_f0, chars)
    /\ pc' = "returned"
    /\ UNCHANGED <<selVars, sumVars, volVars, fanVars>>
    /\ UNCHANGED <<res_intensity, steps>>

AnaNext ==
    \/ IntensityPass
    \/ LoadAndTrim
    \/ SummarizeBegin
    \/ CharStep
    \/ ContourBegin
    \/ FrameStep
    \/ ContourEnd
    \/ SummarizeReturn
    \/ BuildResponse

AnaSpec == AnaInit /\ [][AnaNext]_vars

\* ------------------------------------------ claims on analyze_intonation
\* the call s has been made
Called(s) == \E k \in 1..Len(steps) : steps[k] = s

\* no part of the prosody pass has run
NoProsodyStep ==
    /\ boundaries = <<>>
    /\ f0_hz = <<>>
    /\ char_summary = <<>>
    /\ char_axis_pos = <<>>
    /\ char_axis_f0 = <<>>

\* C14: whenever the spoken signal is empty after the trimming,
\* analyze_intonation returns an ErrorResponse and never a SUCCESS response,
\* and no boundary selection, pitch tracking or summarisation has run.
C14_EmptySpokenSignalIsAFailure ==
    (Called("compute_spoken_audio") /\ spoken_len = 0) =>
        /\ pc = "returned"
        /\ response.status = "ERROR"
        /\ response.error_name = "Cannot Remove Silent Intervals"
        /\ NoProsodyStep

\* the loudness pass has succeeded and the trimming has left nothing
C14_Witness ==
    /\ pc = "returned"
    /\ res_intensity.status = "SUCCESS"
    /\ Called("compute_spoken_audio")
    /\ spoken_len = 0
    /\ response.status = "ERROR"

\* C20: the loudness pass is the first call; when it returns an
\* ErrorResponse, analyze_intonation returns that same value and neither
\* loads the audio, trims it nor runs the prosody pass; the failure of the
\* silence removal is reported only after a successful loudness pass; the
\* characters and volumes given to the prosody pass are those of the
\* loudness result, in order.
C20_LoudnessPassComesFirst ==
    /\ steps # <<>> => steps[1] = "analyze_intensity"
    /\ res_intensity.status = "ERROR" =>
          /\ pc = "returned"
          /\ response = res_intensity
          /\ steps = <<"analyze_intensity">>
          /\ NoProsodyStep
    /\ (response.status = "ERROR" /\ Called("compute_spoken_audio")) =>
          res_intensity.status = "SUCCESS"
    /\ pc \in {"load", "summarize", "chars", "frames", "contour_done", "summarized"} =>
          /\ res_intensity.status = "SUCCESS"
          /\ Len(chars) = Len(res_intensity.char_volumes)
          /\ Len(volumes) = Len(res_intensity.char_volumes)
          /\ \A k \in 1..Len(chars) :
                /\ chars[k] = res_intensity.char_volumes[k].char
                /\ volumes[k] = res_intensity.char_volumes[k].volume
    /\ response.status = "SUCCESS" =>
          /\ res_intensity.status = "SUCCESS"
          /\ response.pitch_contour_char.chars = chars

\* the loudness pass has failed and its failure is the response
C20_Witness ==
    /\ pc = "returned"
    /\ res_intensity = ErrorResponse("Cannot Recognize Speech", 2)
    /\ response = res_intensity
    /\ steps = <<"analyze_intensity">>

\* the loudness pass has succeeded and the prosody pass has run on its
\* characters, a space among them
C20_WitnessSuccess ==
    /\ pc = "returned"
    /\ response.status = "SUCCESS"
    /\ chars = <<"a", " ", "a">>
    /\ Len(response.char_summary) = 3

\* ------------------------------------ the fan-out of run.py and server.py
\* the order in which the tasks are put into the dict and submitted
TaskOrder == <<"intensity", "speechrate", "intonation", "articulation">>

AnalysisNames == {TaskOrder[k] : k \in 1..Len(TaskOrder)}

\* what fut.result() does for a finished task: it hands out the value the
\* task returned, a response, or raises the exception the task raised
TaskOutcomes ==
    {[kind |-> "value", payload |-> [status |-> "SUCCESS"]],
     [kind |-> "value", payload |-> ErrorResponse("Cannot Recognize Speech", 1)],
     [kind |-> "exception", payload |-> "FileNotFoundError"]}

\* the max_workers handed to ThreadPoolExecutor: run.py 168, server.py 95
PoolWorkers(e, mw, ntasks) ==
    LET m == IF mw < ntasks THEN mw ELSE ntasks
    IN IF e = "server" /\ m < 1 THEN 1 ELSE m

\* lines 179-187 of run.py, 102-108 of server.py: the value of a task that
\* returned, an ErrorResponse named after the class of the exception of a
\* task that raised
TaskResult(fut, time) ==
    IF fut.kind = "value" THEN fut.payload ELSE ErrorResponse(fut.payload, time)

\* what is stored: the response object in run.py, its dict in server.py
\* (_to_dict)
StoredEntry(e, res) == [form |-> IF e = "server" THEN "dict" ELSE "Response", data |-> res]

\* Variant: storing an entry starts the map anew.
SetValue_only_last(map, name, value) == [k \in {name} |-> value]

\* response.set_value(name, res) / results[name] = _to_dict(res)
SetValue(map, name, value) ==
    [k \in (DOMAIN map) \cup {name} |-> IF k = name THEN value ELSE map[k]]

\* the tasks that run in a worker thread
Running == {n \in DOMAIN futures : futures[n].state = "running"}

\* the position of a name in the submission order
OrderOf(n) == CHOOSE k \in 1..Len(TaskOrder) : TaskOrder[k] = n

FanInit ==
    /\ pc = "fanout"
    /\ loudness_boundaries = <<>>
    /\ entry \in {"cli", "server"}
    /\ requested \in SUBSET AnalysisNames
    /\ max_workers \in 0..MaxWorkers
    /\ futures = <<>>
    /\ results = <<>>
    /\ output = Pending
    /\ spoken_len = 0
    /\ hop_length = HopLength
    /\ onset_envelope = <<>>
    /\ onset_frames = <<>>
    /\ target_char_count = 0
    /\ boundaries = <<>>
    /\ SumIdle
    /\ VolIdle
    /\ AnaIdle

\* run.py 119-122 and 153-177, server.py 74-100: without a selected analysis
\* nothing is run; otherwise the pool is made and every task is submitted.
\* ThreadPoolExecutor raises ValueError for max_workers <= 0.
SubmitTasks ==
    /\ pc = "fanout"
    /\ UNCHANGED loudness_boundaries
    /\ IF requested = {}
       THEN /\ pc' = "rejected"
            /\ UNCHANGED futures
       ELSE IF PoolWorkers(entry, max_workers, Cardinality(requested)) <= 0
            THEN /\ pc' = "raised"
                 /\ UNCHANGED futures
            ELSE /\ pc' = "collect"
                 /\ futures' = [n \in requested |-> [state |-> "queued"]]
    /\ UNCHANGED <<selVars, sumVars, volVars, anaVars>>
    /\ UNCHANGED <<entry, requested, max_workers, results, output>>

\* a free worker thread takes the task that has waited longest
StartTask ==
    /\ pc = "collect"
    /\ UNCHANGED loudness_boundaries
    /\ Cardinality(Running) < PoolWorkers(entry, max_workers, Cardinality(requested))
    /\ \E n \in DOMAIN futures :
          /\ futures[n].state = "queued"
          /\ \A m \in DOMAIN futures :
                futures[m].state = "queued" => OrderOf(n) <= OrderOf(m)
          /\ futures' = [futures EXCEPT ![n] = [state |-> "running"]]
    /\ UNCHANGED <<pc, selVars, sumVars, volVars, anaVars>>
    /\ UNCHANGED <<entry, requested, max_workers, results, output>>

\* a running task returns or raises
FinishTask ==
    /\ pc = "collect"
    /\ UNCHANGED loudness_boundaries
    /\ \E n \in Running, outcome \in TaskOutcomes :
          futures' = [futures EXCEPT ![n] =
                         [state |-> "done", kind |-> outcome.kind,
                          payload |-> outcome.payload]]
    /\ UNCHANGED <<pc, selVars, sumVars, volVars, anaVars>>
    /\ UNCHANGED <<entry, requested, max_workers, results, output>>

\* one iteration of the loop over as_completed: a finished task that has
\* not been handed out yet is handed out and its entry stored
CollectResult ==
    /\ pc = "collect"
    /\ UNCHANGED loudness_boundaries
    /\ \E n \in DOMAIN futures, time \in Times :
          /\ futures[n].state = "done"
          /\ futures' = [futures EXCEPT ![n].state = "collected"]
          /\ results' = SetValue(results, n,
                                 StoredEntry(entry, TaskResult(futures[n], time)))
    /\ UNCHANGED <<pc, selVars, sumVars, volVars, anaVars>>
    /\ UNCHANGED <<entry, requested, max_workers, output>>

\* as_completed is exhausted: every task has been handed out
FanOutEnd ==
    /\ pc = "collect"
    /\ UNCHANGED loudness_boundaries
    /\ \A n \in DOMAIN futures : futures[n].state = "collected"
    /\ pc' = "fan_done"
    /\ UNCHANGED <<selVars, sumVars, volVars, anaVars, fanVars>>

\* json.JSONEncoder without a default function encodes dicts, lists,
\* strings, numbers and None; an object of a Response class is none of them
JsonEncodable(stored) == stored.form = "dict"

\* Response.to_json() on the map / JSONResponse(content=results): the JSON
\* object with one member per entry, or the TypeError of the encoder
ToJson(map) ==
    IF \A n \in DOMAIN map : JsonEncodable(map[n])
    THEN [status |-> "JSON", object |-> [n \in DOMAIN map |-> map[n].data]]
    ELSE [status |-> "RAISED", error_name |-> "TypeError"]

\* run.py 191 and server.py 117: the map is serialised and returned
SerializeResponse ==
    /\ pc = "fan_done"
    /\ UNCHANGED loudness_boundaries
    /\ output' = ToJson(results)
    /\ pc' = IF output'.status = "JSON" THEN "fan_returned" ELSE "raised"
    /\ UNCHANGED <<selVars, sumVars, volVars, anaVars>>
    /\ UNCHANGED <<entry, requested, max_workers, futures, results>>

FanNext ==
    \/ SubmitTasks
    \/ StartTask
    \/ FinishTask
    \/ CollectResult
    \/ FanOutEnd
    \/ SerializeResponse

FanSpec == FanInit /\ [][FanNext]_vars

\* ------------------------------------------------ claims on the fan-out
\* the entry of a finished task is the one the claim describes
EntryMatchesTask(n) ==
    /\ futures[n].state = "collected"
    /\ IF futures[n].kind = "value"
       THEN results[n].data = futures[n].payload
       ELSE /\ results[n].data.status = "ERROR"
            /\ results[n].data.error_name = futures[n].payload

\* C15: for every non-empty set of requested analyses, whatever tasks raise
\* and in whatever order they finish, the result map ends with exactly one
\* entry per requested name: the value of the task if it returned, an
\* ErrorResponse named after the exception if it raised; an entry once
\* stored is neither removed nor replaced by another task.
C15_FanOutIsolation ==
    /\ [](/\ DOMAIN results \subseteq requested
          /\ \A n \in DOMAIN results : EntryMatchesTask(n)
          /\ pc = "fan_done" => DOMAIN results = requested)
    /\ [][\A n \in DOMAIN results :
             n \in DOMAIN results' /\ results'[n] = results[n]]_vars

\* three analyses: the one submitted last has raised and is in the map,
\* next to one that returned a value and one that returned a failure
C15_Witness ==
    /\ pc = "fan_done"
    /\ requested = {"intensity", "intonation", "articulation"}
    /\ results["articulation"].data.status = "ERROR"
    /\ results["articulation"].data.error_name = "FileNotFoundError"
    /\ results["intensity"].data = [status |-> "SUCCESS"]
    /\ results["intonation"].data = ErrorResponse("Cannot Recognize Speech", 1)

\* C22 as stated, for a positive max_workers (the default is 4): once the
\* input has passed validation and at least one analysis is selected, main()
\* does not raise and returns the JSON serialisation of the map with one
\* entry per requested analysis, whether the tasks returned or raised.
C22_MainReturnsJson ==
    (entry = "cli" /\ requested # {} /\ max_workers >= 1) =>
        /\ pc # "raised"
        /\ pc = "fan_returned" =>
              /\ output.status = "JSON"
              /\ DOMAIN output.object = requested

====
